---- MODULE Spec2Model ----
(***************************************************************************)
(* Payment-instruction service (src/endpoints/payment-instructions.js).     *)
(*                                                                         *)
(* A JavaScript string is modelled as the sequence of its characters, each  *)
(* character a one-character TLA+ string, so that trimming, whitespace      *)
(* collapsing, splitting, upper-casing, parseInt and includes('.') are      *)
(* computed the way the code computes them.  A JavaScript value that can be *)
(* null or undefined is a tagged record: Null, Undefined, Str(s), Num(n).   *)
(***************************************************************************)
EXTENDS Integers, Sequences, FiniteSets, TLC

(***************************************************************************)
(* JavaScript values                                                       *)
(***************************************************************************)
Null == [t |-> "null"]
Undefined == [t |-> "undefined"]
Str(s) == [t |-> "string", v |-> s]
Num(n) == [t |-> "number", v |-> n]
NaN == [t |-> "NaN"]

\* JavaScript truthiness of null, undefined, a string or a number.
Truthy(v) ==
  CASE v.t = "string" -> v.v # <<>>
    [] v.t = "number" -> v.v # 0
    [] OTHER -> FALSE

\* obj.field of a JavaScript object: undefined when the object has no such field.
Get(obj, f) == IF f \in DOMAIN obj THEN obj[f] ELSE Undefined

(***************************************************************************)
(* String primitives                                                       *)
(***************************************************************************)
LowerChars == << "a", "b", "c", "d", "e", "f", "g", "h", "i", "j", "k", "l", "m",
                 "n", "o", "p", "q", "r", "s", "t", "u", "v", "w", "x", "y", "z" >>
UpperChars == << "A", "B", "C", "D", "E", "F", "G", "H", "I", "J", "K", "L", "M",
                 "N", "O", "P", "Q", "R", "S", "T", "U", "V", "W", "X", "Y", "Z" >>
DigitChars == << "0", "1", "2", "3", "4", "5", "6", "7", "8", "9" >>

Range(f) == { f[i] : i \in DOMAIN f }

LowerSet == Range(LowerChars)
UpperSet == Range(UpperChars)
DigitSet == Range(DigitChars)
UpperOf == [ c \in LowerSet |-> UpperChars[CHOOSE i \in DOMAIN LowerChars : LowerChars[i] = c] ]
ValueOf == [ c \in DigitSet |-> (CHOOSE i \in DOMAIN DigitChars : DigitChars[i] = c) - 1 ]

IsDigit(c) == c \in DigitSet
DigitValue(c) == ValueOf[c]

\* The characters the regular expression \s matches, among those the model uses.
WhitespaceSet == { " ", "\t" }
IsWhitespace(c) == c \in WhitespaceSet

toUpperCaseChar(c) == IF c \in LowerSet THEN UpperOf[c] ELSE c

\* String.prototype.toUpperCase
toUpperCase(s) == [ i \in 1..Len(s) |-> toUpperCaseChar(s[i]) ]

\* String.prototype.includes for a one-character needle
includes(s, c) == \E i \in 1..Len(s) : s[i] = c

RECURSIVE trimStart(_)
trimStart(s) ==
  IF s # <<>> /\ IsWhitespace(Head(s)) THEN trimStart(Tail(s)) ELSE s

RECURSIVE trimEnd(_)
trimEnd(s) ==
  IF s # <<>> /\ IsWhitespace(s[Len(s)]) THEN trimEnd(SubSeq(s, 1, Len(s) - 1)) ELSE s

\* String.prototype.trim
trim(s) == trimEnd(trimStart(s))

\* s.replace(/\s+/g, ' '): every maximal run of whitespace becomes one space.
RECURSIVE collapseWhitespace(_)
collapseWhitespace(s) ==
  IF s = <<>> THEN <<>>
  ELSE IF IsWhitespace(Head(s))
       THEN << " " >> \o collapseWhitespace(trimStart(Tail(s)))
       ELSE << Head(s) >> \o collapseWhitespace(Tail(s))

\* s.split(sep) for a one-character separator; "".split(sep) is [""].
RECURSIVE split(_, _)
split(s, sep) ==
  IF ~includes(s, sep) THEN << s >>
  ELSE LET i == CHOOSE k \in 1..Len(s) :
                  s[k] = sep /\ \A j \in 1..(k - 1) : s[j] # sep
       IN << SubSeq(s, 1, i - 1) >> \o split(SubSeq(s, i + 1, Len(s)), sep)

\* The value of the longest prefix of decimal digits of s, and its length.
RECURSIVE digitPrefix(_, _, _)
digitPrefix(s, acc, n) ==
  IF s # <<>> /\ IsDigit(Head(s))
  THEN digitPrefix(Tail(s), acc * 10 + DigitValue(Head(s)), n + 1)
  ELSE [val |-> acc, len |-> n]

\* Number.parseInt(s, 10): leading whitespace skipped, an optional sign, then
\* the longest run of digits; what follows the digits is ignored; NaN when
\* there is no digit.
parseInt(s) ==
  LET t == trimStart(s)
      signed == t # <<>> /\ Head(t) \in { "+", "-" }
      body == IF signed THEN Tail(t) ELSE t
      p == digitPrefix(body, 0, 0)
  IN IF p.len = 0 THEN NaN
     ELSE Num(IF signed /\ Head(t) = "-" THEN 0 - p.val ELSE p.val)

isNaN(n) == n.t = "NaN"

(***************************************************************************)
(* Calendar arithmetic of the JavaScript Date object (proleptic Gregorian). *)
(* Instants are counted in hours since 1970-01-01T00:00Z.                   *)
(***************************************************************************)
\* Days since 1970-01-01 of the civil date y-m-d; a day beyond the end of the
\* month runs into the following months, as Date's constructor does.
DaysFromCivil(y, m, d) ==
  LET yy == IF m <= 2 THEN y - 1 ELSE y
      era == yy \div 400
      yoe == yy - era * 400
      mp == (m + 9) % 12
      doy == (153 * mp + 2) \div 5 + d - 1
      doe == yoe * 365 + yoe \div 4 - yoe \div 100 + doy
  IN era * 146097 + doe - 719468

\* The civil date of a day number: the inverse of DaysFromCivil on real dates.
CivilFromDays(z) ==
  LET zz == z + 719468
      era == zz \div 146097
      doe == zz - era * 146097
      yoe == (doe - doe \div 1460 + doe \div 36524 - doe \div 146096) \div 365
      doy == doe - (365 * yoe + yoe \div 4 - yoe \div 100)
      mp == (5 * doy + 2) \div 153
      d == doy - (153 * mp + 2) \div 5 + 1
      m == IF mp < 10 THEN mp + 3 ELSE mp - 9
      y == yoe + era * 400 + (IF m <= 2 THEN 1 ELSE 0)
  IN [year |-> y, month |-> m, day |-> d]

\* new Date(year, monthIndex, day): local midnight of that civil date on a host
\* whose local time is tz hours ahead of UTC.
LocalDate(year, monthIndex, day, tz) ==
  Num(DaysFromCivil(year, monthIndex + 1, day) * 24 - tz)

\* getFullYear / getMonth / getDate of an instant, in the host's local time.
LocalFields(instant, tz) ==
  LET c == CivilFromDays((instant.v + tz) \div 24)
  IN [year |-> c.year, month |-> c.month - 1, date |-> c.day]

\* getUTCFullYear / getUTCMonth / getUTCDate of an instant.
UTCFields(instant) == LocalFields(instant, 0)

\* new Date(`${dateStr}T00:00:00.000Z`): the instant of UTC midnight of an
\* all-digit YYYY-MM-DD date; an Invalid Date (NaN) for any other text.  The
\* service reaches it only with a date isValidDate accepted, so an all-digit
\* date here is a real calendar date.
ParseUTCMidnight(s) ==
  IF /\ Len(s) = 10
     /\ s[5] = "-" /\ s[8] = "-"
     /\ \A i \in { 1, 2, 3, 4, 6, 7, 9, 10 } : IsDigit(s[i])
  THEN Num(DaysFromCivil(parseInt(SubSeq(s, 1, 4)).v,
                         parseInt(SubSeq(s, 6, 7)).v,
                         parseInt(SubSeq(s, 9, 10)).v) * 24)
  ELSE NaN

(***************************************************************************)
(* Fixed tables                                                            *)
(***************************************************************************)
SUPPORTED_CURRENCIES ==
  { << "N", "G", "N" >>, << "U", "S", "D" >>, << "G", "B", "P" >>, << "G", "H", "S" >> }

STATUS_CODES ==
  [ AM01 |-> "Amount must be a positive integer",
    CU01 |-> "Account currency mismatch",
    CU02 |-> "Unsupported currency. Only NGN, USD, GBP, and GHS are supported",
    AC01 |-> "Insufficient funds in debit account",
    AC02 |-> "Debit and credit accounts cannot be the same",
    AC03 |-> "Account not found",
    AC04 |-> "Invalid account ID format",
    DT01 |-> "Invalid date format",
    SY01 |-> "Missing required keyword",
    SY02 |-> "Invalid keyword order",
    SY03 |-> "Malformed instruction: unable to parse keywords",
    AP00 |-> "Transaction executed successfully",
    AP02 |-> "Transaction scheduled for future execution" ]

\* Keywords of the grammar, as the upper-cased tokens they are matched against.
KwDebit == << "D", "E", "B", "I", "T" >>
KwCredit == << "C", "R", "E", "D", "I", "T" >>
KwFrom == << "F", "R", "O", "M" >>
KwTo == << "T", "O" >>
KwFor == << "F", "O", "R" >>
KwAccount == << "A", "C", "C", "O", "U", "N", "T" >>
KwOn == << "O", "N" >>

\* The fewest tokens an instruction may have (parseInstruction).
MinTokens == 8

(***************************************************************************)
(* Helpers of the service                                                  *)
(***************************************************************************)
\* parts[i] of a JavaScript array (indices from 0): undefined out of range.
At(parts, i) == IF i >= 0 /\ i < Len(parts) THEN Str(parts[i + 1]) ELSE Undefined

\* Index (from 0) of the first token equal to keyword at or after startFrom,
\* or -1.  A negative startFrom reads undefined below index 0 and so scans
\* from 0.
findKeywordIndex(parts, keyword, startFrom) ==
  LET hits == { i \in 0..(Len(parts) - 1) : i >= startFrom /\ parts[i + 1] = keyword }
  IN IF hits = {} THEN -1 ELSE CHOOSE i \in hits : \A j \in hits : i <= j

\* The case-preserving token at accountPosition of the original instruction.
extractAccountId(originalInstruction, accountPosition, parts) ==
  LET normalizedParts == split(collapseWhitespace(trim(originalInstruction)), " ")
  IN IF accountPosition < Len(normalizedParts)
     THEN At(normalizedParts, accountPosition)
     ELSE IF Truthy(At(parts, accountPosition))
          THEN At(parts, accountPosition) ELSE Str(<<>>)

AccountIdChars == LowerSet \cup UpperSet \cup DigitSet \cup { ".", "@", "-" }
AccountIdChar(c) == c \in AccountIdChars

isValidAccountId(accountId) ==
  IF ~Truthy(accountId) \/ accountId.t # "string" THEN FALSE
  ELSE \A i \in 1..Len(accountId.v) : AccountIdChar(accountId.v[i])

\* dateStr is a JavaScript value; tz is the host's offset from UTC in hours.
isValidDate(dateStr, tz) ==
  IF ~Truthy(dateStr) \/ dateStr.t # "string" THEN FALSE
  ELSE LET s == dateStr.v IN
    IF Len(s) # 10 \/ s[5] # "-" \/ s[8] # "-" THEN FALSE
    ELSE LET parts == split(s, "-") IN
      IF Len(parts) # 3 THEN FALSE
      ELSE LET year == parseInt(parts[1])
               month == parseInt(parts[2])
               day == parseInt(parts[3])
           IN IF isNaN(year) \/ isNaN(month) \/ isNaN(day) THEN FALSE
              ELSE IF year.v < 1000 \/ year.v > 9999 THEN FALSE
              ELSE IF month.v < 1 \/ month.v > 12 THEN FALSE
              ELSE IF day.v < 1 \/ day.v > 31 THEN FALSE
              ELSE LET date == LocalDate(year.v, month.v - 1, day.v, tz)
                       f == LocalFields(date, tz)
                   IN f.year = year.v /\ f.month = month.v - 1 /\ f.date = day.v

\* clock.now is the current instant, clock.tz the host's offset from UTC.
\* A comparison with an Invalid Date is false.
isDateInPastOrToday(dateStr, clock) ==
  LET targetDate == ParseUTCMidnight(dateStr)
      today == UTCFields(Num(clock.now))
      todayUTC == LocalDate(today.year, today.month, today.date, clock.tz)
  IN IF isNaN(targetDate) THEN FALSE ELSE targetDate.v <= todayUTC.v

\* Mutant: an account without balance_before is given 0, not its balance.
createAccountsResponseZeroBefore(accounts, debitAccountId, creditAccountId, includeBalanceBefore) ==
  LET involved(acc) == Str(acc.id) = debitAccountId \/ Str(acc.id) = creditAccountId
      picked == SelectSeq(accounts, involved)
  IN [ i \in 1..Len(picked) |->
         [ id |-> picked[i].id,
           balance |-> picked[i].balance,
           currency |-> toUpperCase(picked[i].currency),
           balance_before |->
             IF includeBalanceBefore /\ "balance_before" \in DOMAIN picked[i]
             THEN picked[i].balance_before
             ELSE 0 ] ]

\* Mutant: the filter keeps the debit account only.
createAccountsResponseDebitOnly(accounts, debitAccountId, creditAccountId, includeBalanceBefore) ==
  LET involved(acc) == Str(acc.id) = debitAccountId
      picked == SelectSeq(accounts, involved)
  IN [ i \in 1..Len(picked) |->
         [ id |-> picked[i].id,
           balance |-> picked[i].balance,
           currency |-> toUpperCase(picked[i].currency),
           balance_before |->
             IF includeBalanceBefore /\ "balance_before" \in DOMAIN picked[i]
             THEN picked[i].balance_before
             ELSE picked[i].balance ] ]

\* Only the accounts the instruction names, each with balance_before.
createAccountsResponse(accounts, debitAccountId, creditAccountId, includeBalanceBefore) ==
  LET involved(acc) == Str(acc.id) = debitAccountId \/ Str(acc.id) = creditAccountId
      picked == SelectSeq(accounts, involved)
  IN [ i \in 1..Len(picked) |->
         [ id |-> picked[i].id,
           balance |-> picked[i].balance,
           currency |-> toUpperCase(picked[i].currency),
           balance_before |->
             IF includeBalanceBefore /\ "balance_before" \in DOMAIN picked[i]
             THEN picked[i].balance_before
             ELSE picked[i].balance ] ]

createErrorResponse(type, amount, currency, debitAccount, creditAccount, executeBy, status, statusReason, statusCode, accounts) ==
  LET temp == IF Truthy(amount) THEN parseInt(amount.v) ELSE NaN
      parsedAmount == IF Truthy(amount) /\ ~isNaN(temp) THEN temp ELSE Null
  IN [ type |-> type,
       amount |-> parsedAmount,
       currency |-> IF Truthy(currency) THEN Str(toUpperCase(currency.v)) ELSE Null,
       debit_account |-> debitAccount,
       credit_account |-> creditAccount,
       execute_by |-> executeBy,
       status |-> status,
       status_reason |-> statusReason,
       status_code |-> statusCode,
       accounts |-> accounts ]

createSuccessResponse(parsedData, status, statusReason, statusCode, accounts) ==
  [ type |-> parsedData.type,
    amount |-> parseInt(parsedData.amount.v),
    currency |-> Str(toUpperCase(parsedData.currency.v)),
    debit_account |-> parsedData.debit_account,
    credit_account |-> parsedData.credit_account,
    execute_by |-> parsedData.execute_by,
    status |-> status,
    status_reason |-> statusReason,
    status_code |-> statusCode,
    accounts |-> accounts ]

(***************************************************************************)
(* Grammar parser                                                          *)
(***************************************************************************)
\* A recognizer's failure carries no instruction field at all.
RecognizerFailure(code) ==
  [ success |-> FALSE, error_message |-> STATUS_CODES[code], error_code |-> code ]

\* The token after ON, when ON was found after the second ACCOUNT and a token
\* follows it.
ExecuteBy(parts, onIndex) ==
  IF onIndex # -1 /\ onIndex + 1 < Len(parts) THEN At(parts, onIndex + 1) ELSE Null

\* DEBIT [amount] [currency] FROM ACCOUNT [id] FOR CREDIT TO ACCOUNT [id] [ON [date]]
parseDebitInstruction(parts, originalInstruction) ==
  LET fromIndex == findKeywordIndex(parts, KwFrom, 0)
      accountIndex1 == findKeywordIndex(parts, KwAccount, fromIndex)
      forIndex == findKeywordIndex(parts, KwFor, 0)
      creditIndex == findKeywordIndex(parts, KwCredit, forIndex)
      toIndex == findKeywordIndex(parts, KwTo, creditIndex)
      accountIndex2 == findKeywordIndex(parts, KwAccount, toIndex)
      onIndex == findKeywordIndex(parts, KwOn, accountIndex2)
  IN IF \/ fromIndex = -1 \/ accountIndex1 = -1 \/ forIndex = -1
        \/ creditIndex = -1 \/ toIndex = -1 \/ accountIndex2 = -1
     THEN RecognizerFailure("SY01")
     ELSE IF ~( /\ fromIndex < accountIndex1
                /\ accountIndex1 < forIndex
                /\ forIndex < creditIndex
                /\ creditIndex < toIndex
                /\ toIndex < accountIndex2 )
     THEN RecognizerFailure("SY02")
     ELSE [ success |-> TRUE,
            data |-> [ amount |-> At(parts, 1),
                       currency |-> At(parts, 2),
                       debit_account |->
                         extractAccountId(originalInstruction, accountIndex1 + 1, parts),
                       credit_account |->
                         extractAccountId(originalInstruction, accountIndex2 + 1, parts),
                       execute_by |-> ExecuteBy(parts, onIndex) ] ]

\* CREDIT [amount] [currency] TO ACCOUNT [id] FOR DEBIT FROM ACCOUNT [id] [ON [date]]
parseCreditInstruction(parts, originalInstruction) ==
  LET toIndex == findKeywordIndex(parts, KwTo, 0)
      accountIndex1 == findKeywordIndex(parts, KwAccount, toIndex)
      forIndex == findKeywordIndex(parts, KwFor, 0)
      debitIndex == findKeywordIndex(parts, KwDebit, forIndex)
      fromIndex == findKeywordIndex(parts, KwFrom, debitIndex)
      accountIndex2 == findKeywordIndex(parts, KwAccount, fromIndex)
      onIndex == findKeywordIndex(parts, KwOn, accountIndex2)
  IN IF \/ toIndex = -1 \/ accountIndex1 = -1 \/ forIndex = -1
        \/ debitIndex = -1 \/ fromIndex = -1 \/ accountIndex2 = -1
     THEN RecognizerFailure("SY01")
     ELSE IF ~( /\ toIndex < accountIndex1
                /\ accountIndex1 < forIndex
                /\ forIndex < debitIndex
                /\ debitIndex < fromIndex
                /\ fromIndex < accountIndex2 )
     THEN RecognizerFailure("SY02")
     ELSE [ success |-> TRUE,
            data |-> [ amount |-> At(parts, 1),
                       currency |-> At(parts, 2),
                       debit_account |->
                         extractAccountId(originalInstruction, accountIndex2 + 1, parts),
                       credit_account |->
                         extractAccountId(originalInstruction, accountIndex1 + 1, parts),
                       execute_by |-> ExecuteBy(parts, onIndex) ] ]

\* A failure of parseInstruction itself names every instruction field as null.
ParseFailure(code) ==
  [ success |-> FALSE, error_message |-> STATUS_CODES[code], error_code |-> code,
    type |-> Null, amount |-> Null, currency |-> Null,
    debit_account |-> Null, credit_account |-> Null, execute_by |-> Null ]

\* instruction.trim().replace(/\s+/g, ' ').toUpperCase().split(' ')
Normalize(instruction) == split(toUpperCase(collapseWhitespace(trim(instruction))), " ")

\* instruction is a JavaScript value.
parseInstruction(instruction) ==
  IF ~Truthy(instruction) \/ instruction.t # "string" THEN ParseFailure("SY03")
  ELSE LET parts == Normalize(instruction.v) IN
    IF Len(parts) < MinTokens THEN ParseFailure("SY03")
    ELSE IF parts[1] = KwDebit
    THEN LET debitResult == parseDebitInstruction(parts, instruction.v)
         IN IF ~debitResult.success THEN debitResult
            ELSE [ success |-> TRUE,
                   data |-> [ type |-> Str(KwDebit) ] @@ debitResult.data ]
    ELSE IF parts[1] = KwCredit
    THEN LET creditResult == parseCreditInstruction(parts, instruction.v)
         IN IF ~creditResult.success THEN creditResult
            ELSE [ success |-> TRUE,
                   data |-> [ type |-> Str(KwCredit) ] @@ creditResult.data ]
    ELSE ParseFailure("SY01")

(***************************************************************************)
(* Business rule validator                                                 *)
(***************************************************************************)
\* accounts.find(acc => acc.id === id): the first such account, or undefined.
find(accounts, id) ==
  LET same(acc) == Str(acc.id) = id
      hits == SelectSeq(accounts, same)
  IN IF hits = <<>> THEN Undefined ELSE Head(hits)

\* Mutant: the amount rule without its decimal-point test.
FailsAM01NoDecimalCheck(parsedData) ==
  LET rawAmount == parsedData.amount
      parsedAmount == parseInt(rawAmount.v)
  IN \/ ~Truthy(rawAmount)
     \/ isNaN(parsedAmount)
     \/ parsedAmount.v <= 0

\* The condition under which each rule of validateBusinessRules fails, in the
\* order the code tests them.
FailsAM01(parsedData) ==
  LET rawAmount == parsedData.amount
      parsedAmount == parseInt(rawAmount.v)
  IN \/ ~Truthy(rawAmount)
     \/ isNaN(parsedAmount)
     \/ parsedAmount.v <= 0
     \/ includes(rawAmount.v, ".")

FailsCU02(parsedData) ==
  \/ ~Truthy(parsedData.currency)
  \/ toUpperCase(parsedData.currency.v) \notin SUPPORTED_CURRENCIES

FailsAC04(parsedData) ==
  ~isValidAccountId(parsedData.debit_account) \/ ~isValidAccountId(parsedData.credit_account)

FailsAC02(parsedData) == parsedData.debit_account = parsedData.credit_account

FailsAC03(parsedData, accounts) ==
  \/ find(accounts, parsedData.debit_account) = Undefined
  \/ find(accounts, parsedData.credit_account) = Undefined

FailsCU01(parsedData, accounts) ==
  LET debitAcc == find(accounts, parsedData.debit_account)
      creditAcc == find(accounts, parsedData.credit_account)
  IN \/ toUpperCase(debitAcc.currency) # toUpperCase(creditAcc.currency)
     \/ toUpperCase(debitAcc.currency) # toUpperCase(parsedData.currency.v)

FailsAC01(parsedData, accounts) ==
  find(accounts, parsedData.debit_account).balance < parseInt(parsedData.amount.v).v

FailsDT01(parsedData, tz) ==
  Truthy(parsedData.execute_by) /\ ~isValidDate(parsedData.execute_by, tz)

ValidationFailure(code) ==
  [ success |-> FALSE, error_message |-> STATUS_CODES[code], error_code |-> code ]

\* Mutant: account existence (AC03) tested before the self-transfer rule (AC02).
validateBusinessRulesExistenceFirst(parsedData, accounts, tz) ==
  IF FailsAM01(parsedData) THEN ValidationFailure("AM01")
  ELSE IF FailsCU02(parsedData) THEN ValidationFailure("CU02")
  ELSE IF FailsAC04(parsedData) THEN ValidationFailure("AC04")
  ELSE IF FailsAC03(parsedData, accounts) THEN ValidationFailure("AC03")
  ELSE IF FailsAC02(parsedData) THEN ValidationFailure("AC02")
  ELSE IF FailsCU01(parsedData, accounts) THEN ValidationFailure("CU01")
  ELSE IF FailsAC01(parsedData, accounts) THEN ValidationFailure("AC01")
  ELSE IF FailsDT01(parsedData, tz) THEN ValidationFailure("DT01")
  ELSE [ success |-> TRUE ]

validateBusinessRules(parsedData, accounts, tz) ==
  IF FailsAM01(parsedData) THEN ValidationFailure("AM01")
  ELSE IF FailsCU02(parsedData) THEN ValidationFailure("CU02")
  ELSE IF FailsAC04(parsedData) THEN ValidationFailure("AC04")
  ELSE IF FailsAC02(parsedData) THEN ValidationFailure("AC02")
  ELSE IF FailsAC03(parsedData, accounts) THEN ValidationFailure("AC03")
  ELSE IF FailsCU01(parsedData, accounts) THEN ValidationFailure("CU01")
  ELSE IF FailsAC01(parsedData, accounts) THEN ValidationFailure("AC01")
  ELSE IF FailsDT01(parsedData, tz) THEN ValidationFailure("DT01")
  ELSE [ success |-> TRUE ]

(***************************************************************************)
(* Settlement executor                                                     *)
(***************************************************************************)
\* Mutant: the credit account is not credited.
UpdatedAccountDebitOnly(acc, debitAccount, creditAccount, parsedAmount) ==
  [ id |-> acc.id,
    balance_before |-> acc.balance,
    balance |-> IF Str(acc.id) = debitAccount THEN acc.balance - parsedAmount
                ELSE acc.balance,
    currency |-> toUpperCase(acc.currency) ]

\* The copy of one account the immediate path makes: every account gets
\* balance_before and an upper-cased currency, the debit account is debited,
\* the credit account credited.
UpdatedAccount(acc, debitAccount, creditAccount, parsedAmount) ==
  [ id |-> acc.id,
    balance_before |-> acc.balance,
    balance |-> IF Str(acc.id) = debitAccount THEN acc.balance - parsedAmount
                ELSE IF Str(acc.id) = creditAccount THEN acc.balance + parsedAmount
                ELSE acc.balance,
    currency |-> toUpperCase(acc.currency) ]

shouldExecuteNow(executeBy, clock) ==
  ~Truthy(executeBy) \/ isDateInPastOrToday(executeBy.v, clock)

executeTransaction(parsedData, accounts, clock) ==
  LET parsedAmount == parseInt(parsedData.amount.v).v
      debitAccount == parsedData.debit_account
      creditAccount == parsedData.credit_account
  IN IF shouldExecuteNow(parsedData.execute_by, clock)
     THEN LET updatedAccounts ==
                [ i \in 1..Len(accounts) |->
                    UpdatedAccount(accounts[i], debitAccount, creditAccount, parsedAmount) ]
          IN [ status |-> "successful",
               status_reason |-> STATUS_CODES.AP00,
               status_code |-> "AP00",
               accounts |->
                 createAccountsResponse(updatedAccounts, debitAccount, creditAccount, TRUE) ]
     ELSE [ status |-> "pending",
            status_reason |-> STATUS_CODES.AP02,
            status_code |-> "AP02",
            accounts |->
              createAccountsResponse(accounts, debitAccount, creditAccount, FALSE) ]

(***************************************************************************)
(* The service and the endpoint                                            *)
(***************************************************************************)
\* The service's local parseResult.  payload is a JavaScript object: a field
\* it lacks reads as undefined, and an accounts array, even an empty one, is
\* truthy.  Undefined when the service rejects the payload before parsing.
parseResultOf(payload) ==
  IF "accounts" \notin DOMAIN payload \/ ~Truthy(Get(payload, "instruction"))
  THEN Undefined
  ELSE parseInstruction(payload.instruction)

\* The service's local validationResult; undefined when parsing did not succeed.
validationResultOf(payload, clock, parseResult) ==
  IF parseResult = Undefined \/ ~parseResult.success
  THEN Undefined
  ELSE validateBusinessRules(parseResult.data, payload.accounts, clock.tz)

\* The response on a validation failure.
validationFailureResponse(data, accounts, validationResult) ==
  createErrorResponse(data.type, data.amount, data.currency, data.debit_account,
                      data.credit_account, data.execute_by, "failed",
                      validationResult.error_message, validationResult.error_code,
                      createAccountsResponse(accounts, data.debit_account,
                                             data.credit_account, FALSE))

\* The response on a settlement.
settlementResponse(data, executionResult) ==
  createSuccessResponse(data, executionResult.status, executionResult.status_reason,
                        executionResult.status_code, executionResult.accounts)

\* The response the service returns, parseResult and validationResult being
\* its locals as computed above.
paymentInstructionService(payload, clock, parseResult, validationResult) ==
  IF parseResult = Undefined
  THEN createErrorResponse(Null, Null, Null, Null, Null, Null,
                           "failed", STATUS_CODES.SY03, "SY03", <<>>)
  ELSE IF ~parseResult.success
  THEN createErrorResponse(Get(parseResult, "type"), Get(parseResult, "amount"),
                           Get(parseResult, "currency"),
                           Get(parseResult, "debit_account"),
                           Get(parseResult, "credit_account"),
                           Get(parseResult, "execute_by"),
                           "failed", parseResult.error_message,
                           parseResult.error_code, <<>>)
  ELSE IF ~validationResult.success
  THEN validationFailureResponse(parseResult.data, payload.accounts, validationResult)
  ELSE settlementResponse(parseResult.data,
                          executeTransaction(parseResult.data, payload.accounts, clock))

\* The HTTP status class the endpoint answers with.
httpStatus(response) ==
  IF response.status = "successful" \/ response.status = "pending"
  THEN "HTTP_200_OK" ELSE "HTTP_400_BAD_REQUEST"

(***************************************************************************)
(* Requests the model submits                                              *)
(***************************************************************************)
\* Longest account list of a request.
MaxAccounts == 3
\* Largest balance of an account of a request; the amounts asked for are 3.
MaxBalance == 3

TokA1 == << "a", "1" >>
TokA1Upper == << "A", "1" >>
TokB2 == << "B", "2" >>
TokBadId == << "b", "#" >>

TokUsdLower == << "u", "s", "d" >>
TokUSD == << "U", "S", "D" >>
TokNgnLower == << "n", "g", "n" >>
TokNGN == << "N", "G", "N" >>
TokEUR == << "E", "U", "R" >>

TokThree == << "3" >>
TokDecimal == << "2", ".", "5" >>
TokZero == << "0" >>
TokNegative == << "-", "1" >>
TokWord == << "x" >>
TokDigitsThenLetter == << "1", "A" >>
\* Amount tokens: a positive integer, and the ways of not being one.
AmountTokens == { TokThree, TokDecimal, TokZero, TokNegative, TokWord, TokDigitsThenLetter }

\* The model's clock reads 2025-03-01 (UTC).
DatePast == << "2", "0", "2", "5", "-", "0", "2", "-", "2", "8" >>
DateToday == << "2", "0", "2", "5", "-", "0", "3", "-", "0", "1" >>
DateTomorrow == << "2", "0", "2", "5", "-", "0", "3", "-", "0", "2" >>
DateNoSuchDay == << "2", "0", "2", "5", "-", "0", "2", "-", "3", "0" >>
DateLeapDay == << "2", "0", "2", "4", "-", "0", "2", "-", "2", "9" >>
DateNoLeapDay == << "2", "0", "2", "3", "-", "0", "2", "-", "2", "9" >>
DateLetterInMonth == << "2", "0", "2", "5", "-", "1", "A", "-", "0", "1" >>
DateNoMonth == << "2", "0", "2", "5", "-", "1", "3", "-", "0", "1" >>
DateShort == << "2", "0", "2", "5", "-", "3", "-", "1" >>
TodayMidnight == DaysFromCivil(2025, 3, 1) * 24

Clocks == { [ now |-> TodayMidnight + h, tz |-> z ] : h \in { 0, 23 }, z \in { -5, 0, 1 } }
PlainClock == [ now |-> TodayMidnight + 12, tz |-> 0 ]

AccountRecords ==
  { [ id |-> TokA1, balance |-> b, currency |-> TokUsdLower ] : b \in { 1, MaxBalance } }
    \cup { [ id |-> TokB2, balance |-> 1, currency |-> c ] : c \in { TokUSD, TokNgnLower } }

RECURSIVE SeqsUpTo(_, _)
SeqsUpTo(S, n) ==
  IF n = 0 THEN { <<>> }
  ELSE LET shorter == SeqsUpTo(S, n - 1)
       IN shorter \cup { Append(q, x) : q \in { r \in shorter : Len(r) = n - 1 }, x \in S }

Snapshots == SeqsUpTo(AccountRecords, MaxAccounts)
ShortSnapshots == { sn \in Snapshots : Len(sn) < MaxAccounts }
PlainSnapshot ==
  << [ id |-> TokA1, balance |-> MaxBalance, currency |-> TokUsdLower ],
     [ id |-> TokB2, balance |-> 1, currency |-> TokUSD ] >>

\* The tokens of a sentence of either form, with its optional tail.
Sentence(type, amount, currency, acct1, acct2, tail) ==
  IF type = KwDebit
  THEN << KwDebit, amount, currency, KwFrom, KwAccount, acct1,
          KwFor, KwCredit, KwTo, KwAccount, acct2 >> \o tail
  ELSE << KwCredit, amount, currency, KwTo, KwAccount, acct1,
          KwFor, KwDebit, KwFrom, KwAccount, acct2 >> \o tail

\* The text of a token sequence: tokens joined by sep, between lead and trail.
RECURSIVE Join(_, _)
Join(tokens, sep) ==
  IF tokens = <<>> THEN <<>>
  ELSE IF Len(tokens) = 1 THEN tokens[1]
  ELSE tokens[1] \o sep \o Join(Tail(tokens), sep)

Plain(tokens) == Str(Join(tokens, << " " >>))
Padded(tokens) == Str(<< " ", "\t" >> \o Join(tokens, << " ", " " >>) \o << "\t" >>)

LowerOf == [ c \in UpperSet |-> LowerChars[CHOOSE i \in DOMAIN UpperChars : UpperChars[i] = c] ]
toLowerCaseChar(c) == IF c \in UpperSet THEN LowerOf[c] ELSE c
LowerCased(tokens) ==
  [ i \in 1..Len(tokens) |-> [ k \in 1..Len(tokens[i]) |-> toLowerCaseChar(tokens[i][k]) ] ]

Drop(tokens, i) == SubSeq(tokens, 1, i - 1) \o SubSeq(tokens, i + 1, Len(tokens))
Swap(tokens, i, j) == [ tokens EXCEPT ![i] = tokens[j], ![j] = tokens[i] ]

Types == { KwDebit, KwCredit }
Tails == { <<>>, << KwOn >>, << KwOn, DatePast >>, << KwOn, DateToday >>,
           << KwOn, DateTomorrow >>, << KwOn, DateNoSuchDay >>,
           << KwOn, DateLeapDay >>, << KwOn, DateNoLeapDay >>,
           << KwOn, DateLetterInMonth >>, << KwOn, DateNoMonth >>, << KwOn, DateShort >> }
AccountPairs == { << TokA1, TokB2 >>, << TokB2, TokA1 >>, << TokA1, TokA1 >>,
                  << TokA1Upper, TokB2 >>, << TokA1, TokBadId >> }

\* A sentence with one token dropped, two tokens exchanged, the leading keyword
\* replaced, or cut short: the grammar's failures.
Sentences ==
  { Sentence(ty, am, TokUSD, TokA1, TokB2, tl) :
      ty \in Types, am \in { TokThree, TokDecimal }, tl \in { <<>>, << KwOn, DatePast >> } }
Perturbed(tokens) ==
  { Drop(tokens, i) : i \in 1..Len(tokens) }
    \cup { Swap(tokens, i, j) : i \in 1..Len(tokens), j \in 1..Len(tokens) }
    \cup { [ tokens EXCEPT ![1] = << "P", "A", "Y" >> ], SubSeq(tokens, 1, 7) }

\* Instructions that are no sentence text at all.
NoTexts == { Str(<<>>), Str(<< " " >>), Null, Num(5) }

(***************************************************************************)
(* The state machine: one request, answered by the endpoint's handler.      *)
(***************************************************************************)
VARIABLES
  payload,           \* the request body, as the caller holds it
  clock,             \* the host's clock: the current instant and the offset from UTC
  parseResult,       \* the service's local parseResult, Undefined while unset
  validationResult,  \* the service's local validationResult, Undefined while unset
  response,          \* the service's response, Null before the call
  status,            \* the HTTP status of the answer
  pc                 \* "received" or "responded"

vars == << payload, clock, parseResult, validationResult, response, status, pc >>

\* Well-formed sentences against every snapshot: the validation cascade.
CascadeRequest ==
  \E ty \in Types, am \in { TokThree, TokDecimal }, cu \in { TokUsdLower, TokNGN, TokEUR },
     pr \in AccountPairs, sn \in Snapshots :
    /\ payload = [ instruction |-> Plain(Sentence(ty, am, cu, pr[1], pr[2], <<>>)),
                   accounts |-> sn ]
    /\ clock = PlainClock

\* A valid sentence with every tail, under every clock: the settlement decision.
DatedRequest ==
  \E ty \in Types, tl \in Tails, sn \in ShortSnapshots, ck \in Clocks :
    /\ payload = [ instruction |-> Plain(Sentence(ty, TokThree, TokUsdLower, TokA1, TokB2, tl)),
                   accounts |-> sn ]
    /\ clock = ck

\* A sentence valid but for its amount token, with every amount token.
AmountRequest ==
  \E ty \in Types, am \in AmountTokens, sn \in ShortSnapshots :
    /\ payload = [ instruction |-> Plain(Sentence(ty, am, TokUSD,
                                                  IF ty = KwDebit THEN TokA1 ELSE TokB2,
                                                  IF ty = KwDebit THEN TokB2 ELSE TokA1, <<>>)),
                   accounts |-> sn ]
    /\ clock = PlainClock

\* Perturbed sentences, and sentences in lower case with irregular spacing.
GrammarRequest ==
  /\ \E x \in Sentences :
       \/ \E t \in Perturbed(x) : payload = [ instruction |-> Plain(t), accounts |-> PlainSnapshot ]
       \/ payload = [ instruction |-> Padded(LowerCased(x)), accounts |-> PlainSnapshot ]
  /\ clock = PlainClock

\* Payloads the service rejects before parsing, or whose instruction is no text.
MalformedRequest ==
  /\ \/ \E x \in Sentences : payload = [ instruction |-> Plain(x) ]
     \/ \E i \in NoTexts : payload = [ instruction |-> i, accounts |-> PlainSnapshot ]
  /\ clock = PlainClock

Init ==
  /\ CascadeRequest \/ DatedRequest \/ AmountRequest \/ GrammarRequest \/ MalformedRequest
  /\ parseResult = Undefined
  /\ validationResult = Undefined
  /\ response = Null
  /\ status = "none"
  /\ pc = "received"

\* The endpoint's handler: calls the service, which reads the payload and
\* writes none of it, and maps the response's status to the HTTP status.
handler ==
  /\ pc = "received"
  /\ parseResult' = parseResultOf(payload)
  /\ validationResult' = validationResultOf(payload, clock, parseResult')
  /\ response' = paymentInstructionService(payload, clock, parseResult', validationResult')
  /\ status' = httpStatus(response')
  /\ pc' = "responded"
  /\ UNCHANGED << payload, clock >>

Next == handler

Spec == Init /\ [][Next]_vars

(***************************************************************************)
(* Vocabulary of the properties                                            *)
(***************************************************************************)
Responded == pc = "responded"

\* The payload carries an accounts list and an instruction text.
HasText ==
  /\ "accounts" \in DOMAIN payload
  /\ "instruction" \in DOMAIN payload
  /\ payload.instruction.t = "string"
  /\ payload.instruction.v # <<>>

Tokens == Normalize(payload.instruction.v)
\* The grammar recognized the instruction; Data are the fields it extracted.
Parsed == parseResult # Undefined /\ parseResult.success
Data == parseResult.data
Amount == parseInt(Data.amount.v).v
\* Every validation rule passed.
Validated == Parsed /\ validationResult.success
Settled == response.status = "successful" \/ response.status = "pending"

IsInvolved(acc) == Str(acc.id) = Data.debit_account \/ Str(acc.id) = Data.credit_account
\* The snapshot's records of the two accounts the instruction names, in order.
Involved == SelectSeq(payload.accounts, IsInvolved)

\* The response lists the involved records, one entry each, in snapshot order.
ListsInvolved ==
  /\ Len(response.accounts) = Len(Involved)
  /\ \A i \in 1..Len(Involved) : response.accounts[i].id = Involved[i].id

\* Every listed account shows its snapshot balance, before and after.
BalancesUntouched ==
  /\ ListsInvolved
  /\ \A i \in 1..Len(Involved) :
       /\ response.accounts[i].balance = Involved[i].balance
       /\ response.accounts[i].balance_before = Involved[i].balance

\* Every listed account shows the transfer: debited, or credited, by Amount.
TransferApplied ==
  /\ ListsInvolved
  /\ \E i \in 1..Len(Involved) : Str(Involved[i].id) = Data.debit_account
  /\ \E i \in 1..Len(Involved) : Str(Involved[i].id) = Data.credit_account
  /\ \A i \in 1..Len(Involved) :
       /\ response.accounts[i].balance_before = Involved[i].balance
       /\ Str(Involved[i].id) = Data.debit_account
            => response.accounts[i].balance = Involved[i].balance - Amount
       /\ Str(Involved[i].id) = Data.credit_account
            => response.accounts[i].balance = Involved[i].balance + Amount

RECURSIVE SumOf(_, _)
SumOf(accounts, field) ==
  IF accounts = <<>> THEN 0 ELSE Head(accounts)[field] + SumOf(Tail(accounts), field)

DistinctIds(accounts) ==
  \A i, j \in 1..Len(accounts) : accounts[i].id = accounts[j].id => i = j

\* The execution date is an all-digit YYYY-MM-DD calendar date.
HasCalendarDate ==
  /\ Data.execute_by.t = "string"
  /\ ~isNaN(ParseUTCMidnight(Data.execute_by.v))
  /\ isValidDate(Data.execute_by, 0)
\* Day numbers of the execution date and of the current UTC calendar date.
ExecutionDay == ParseUTCMidnight(Data.execute_by.v).v \div 24
CurrentUTCDay == clock.now \div 24

\* tok is one or more decimal digits denoting a number above zero.
IsPositiveIntegerLiteral(tok) ==
  /\ tok # <<>>
  /\ \A i \in 1..Len(tok) : IsDigit(tok[i])
  /\ \E i \in 1..Len(tok) : tok[i] # "0"
\* The number an all-digit token denotes.
RECURSIVE LiteralValue(_)
LiteralValue(tok) ==
  IF tok = <<>> THEN 0
  ELSE 10 * LiteralValue(SubSeq(tok, 1, Len(tok) - 1)) + DigitValue(tok[Len(tok)])

\* The days of month m of year y in the Gregorian calendar.
DaysInMonth(y, m) ==
  IF m = 2
  THEN IF (y % 4 = 0 /\ y % 100 # 0) \/ y % 400 = 0 THEN 29 ELSE 28
  ELSE IF m \in { 4, 6, 9, 11 } THEN 30 ELSE 31
\* tok is a calendar date written YYYY-MM-DD: four digits, two digits, two
\* digits, year 1000-9999, month 1-12, a day the month has in that year.
IsCalendarDate(tok) ==
  /\ Len(tok) = 10
  /\ tok[5] = "-" /\ tok[8] = "-"
  /\ \A i \in { 1, 2, 3, 4, 6, 7, 9, 10 } : IsDigit(tok[i])
  /\ LET y == LiteralValue(SubSeq(tok, 1, 4))
         m == LiteralValue(SubSeq(tok, 6, 7))
         d == LiteralValue(SubSeq(tok, 9, 10))
     IN /\ y \in 1000..9999
        /\ m \in 1..12
        /\ d \in 1..DaysInMonth(y, m)

\* Positions (from 1) of the six mandatory anchors in a sentence of either form.
AnchorPositions == { 4, 5, 7, 8, 9, 10 }

(***************************************************************************)
(* Properties                                                              *)
(***************************************************************************)
\* C1: a well-formed DEBIT- or CREDIT-form instruction without an ON clause
\* that passes every validation rule is answered 'successful' with AP00; each
\* returned debit record has balance = snapshot balance - amount, each returned
\* credit record balance = snapshot balance + amount, and each carries
\* balance_before = its snapshot balance.
C1_ImmediateSettlement ==
  (Responded /\ Validated /\ KwOn \notin Range(Tokens))
    => /\ response.status = "successful"
       /\ response.status_code = "AP00"
       /\ TransferApplied

C1_Witness ==
  /\ Responded /\ Validated /\ KwOn \notin Range(Tokens)
  /\ Data.type = Str(KwCredit)
  /\ Len(response.accounts) = 2
  /\ Amount = 3

\* C2 (as claimed): an otherwise valid instruction with an execution date is
\* pending/AP02 with the snapshot balances when the date is strictly after the
\* current UTC calendar date, and successful/AP00 with the transfer applied when
\* it is on or before it, whatever the time of day and the host's time zone.
C2_DateOnlyUTCRule ==
  (Responded /\ Validated /\ HasCalendarDate)
    => IF ExecutionDay > CurrentUTCDay
       THEN /\ response.status = "pending"
            /\ response.status_code = "AP02"
            /\ BalancesUntouched
       ELSE /\ response.status = "successful"
            /\ response.status_code = "AP00"
            /\ TransferApplied

\* C3 (as claimed): an instruction of at least 8 tokens that is a sentence of
\* either form with any one of its six mandatory anchors missing is answered
\* 'failed' with SY01.
C3_MissingAnchorIsSY01 ==
  (Responded /\ HasText /\ Len(Tokens) >= MinTokens
     /\ \E x \in Sentences, i \in AnchorPositions : payload.instruction = Plain(Drop(x, i)))
    => response.status = "failed" /\ response.status_code = "SY01"

\* C4 (as claimed): a sentence of either form in which two of the six mandatory
\* anchors have exchanged places (all six still present) is answered 'failed'
\* with SY02, never SY01.
C4_SwappedAnchorsAreSY02 ==
  (Responded /\ HasText
     /\ \E x \in Sentences, i, j \in AnchorPositions :
          x[i] # x[j] /\ payload.instruction = Plain(Swap(x, i, j)))
    => response.status = "failed" /\ response.status_code = "SY02"

\* C5 (as claimed): an instruction whose amount token (token position 1)
\* contains a decimal point is answered 'failed' with AM01 regardless of every
\* other aspect of its validity, keywords included.
C5_DecimalAlwaysAM01 ==
  (Responded /\ HasText /\ Len(Tokens) >= 2 /\ includes(Tokens[2], "."))
    => response.status = "failed" /\ response.status_code = "AM01"

\* C5 (amended): an instruction that parses (at least 8 tokens, a recognized
\* form, anchors present and in order) and whose amount token contains a
\* decimal point is answered 'failed' with AM01 regardless of its currency,
\* account identifiers, date and of the snapshot.
C5_ParsedDecimalIsAM01 ==
  (Responded /\ Parsed /\ includes(Tokens[2], "."))
    => response.status = "failed" /\ response.status_code = "AM01"

C5_Witness ==
  /\ Responded /\ Parsed /\ includes(Tokens[2], ".")
  /\ FailsCU02(Data)
  /\ FailsAC02(Data)
  /\ response.status_code = "AM01"

\* C6 (as claimed): in every 'successful' response the sum of balance_before
\* over the returned accounts equals the sum of balance over them.
C6_Conservation ==
  (Responded /\ response.status = "successful")
    => SumOf(response.accounts, "balance_before") = SumOf(response.accounts, "balance")

\* C7 (as claimed): no field of a response is undefined, and on every parse
\* failure (SY01, SY02, SY03) type, amount, currency, debit_account,
\* credit_account and execute_by are null, accounts is empty and status is
\* 'failed'.
C7_FullyPopulated ==
  Responded
    => /\ \A f \in { "type", "amount", "currency", "debit_account", "credit_account",
                    "execute_by" } : response[f] # Undefined
       /\ response.status_code \in { "SY01", "SY02", "SY03" }
            => /\ \A f \in { "type", "amount", "currency", "debit_account",
                            "credit_account", "execute_by" } : response[f] = Null
               /\ response.accounts = <<>>
               /\ response.status = "failed"

\* C8: on every 'failed' response each listed account has balance =
\* balance_before = its snapshot balance, and no step ever changes the
\* caller's payload, its account records included.
C8_FailedUntouched ==
  (Responded /\ response.status = "failed")
    => /\ response.accounts # <<>> => Parsed /\ BalancesUntouched
       /\ Parsed => BalancesUntouched

C8_NoMutation == []C8_FailedUntouched /\ [][payload' = payload]_vars

C8_Witness ==
  /\ Responded /\ response.status = "failed" /\ Parsed
  /\ response.status_code = "AC01"
  /\ Len(response.accounts) = 2

\* C9: for a parsed instruction the status code is that of the first failing
\* rule in the order AM01, CU02, AC04, AC02, AC03, CU01, AC01, DT01, the
\* instruction is settled exactly when all eight pass, and naming the same
\* identifier as debit and credit account (amount, currency and identifier
\* shape valid) gives AC02 whether or not the account is in the snapshot.
RuleOrder == << "AM01", "CU02", "AC04", "AC02", "AC03", "CU01", "AC01", "DT01" >>
RuleFails(code) ==
  CASE code = "AM01" -> FailsAM01(Data)
    [] code = "CU02" -> FailsCU02(Data)
    [] code = "AC04" -> FailsAC04(Data)
    [] code = "AC02" -> FailsAC02(Data)
    [] code = "AC03" -> FailsAC03(Data, payload.accounts)
    [] code = "CU01" -> FailsCU01(Data, payload.accounts)
    [] code = "AC01" -> FailsAC01(Data, payload.accounts)
    [] code = "DT01" -> FailsDT01(Data, clock.tz)
EarlierPass(k) == \A j \in 1..(k - 1) : ~RuleFails(RuleOrder[j])

C9_FirstFailingRule ==
  (Responded /\ Parsed)
    => /\ \A k \in 1..Len(RuleOrder) :
            (EarlierPass(k) /\ RuleFails(RuleOrder[k]))
              => response.status = "failed" /\ response.status_code = RuleOrder[k]
       /\ Settled <=> EarlierPass(Len(RuleOrder) + 1)
       /\ (Data.debit_account = Data.credit_account /\ EarlierPass(4))
            => response.status_code = "AC02"

C9_Witness ==
  /\ Responded /\ Parsed
  /\ Data.debit_account = Data.credit_account
  /\ find(payload.accounts, Data.debit_account) = Undefined
  /\ response.status_code = "AC02"

\* C10 (as claimed): whenever parsing succeeds the accounts list of the
\* response has exactly two entries, one for the debit account and one for the
\* credit account.
C10_ExactlyTwo ==
  (Responded /\ Parsed)
    => /\ Len(response.accounts) = 2
       /\ \E i \in 1..2 : Str(response.accounts[i].id) = Data.debit_account
       /\ \E i \in 1..2 : Str(response.accounts[i].id) = Data.credit_account

\* C10 (amended): whenever parsing succeeds the accounts list of the response
\* has one entry for each snapshot record whose id is the debit or the credit
\* account id, in snapshot order, and no other; for a settlement response over
\* a snapshot without repeated ids these are exactly two entries, one for the
\* debit account and one for the credit account.
C10_InvolvedRecords ==
  (Responded /\ Parsed)
    => /\ ListsInvolved
       /\ (Settled /\ DistinctIds(payload.accounts))
            => /\ Len(response.accounts) = 2
               /\ \E i \in 1..2 : Str(response.accounts[i].id) = Data.debit_account
               /\ \E i \in 1..2 : Str(response.accounts[i].id) = Data.credit_account

C10_Witness ==
  /\ Responded /\ Parsed /\ response.status = "pending"
  /\ DistinctIds(payload.accounts)
  /\ Len(response.accounts) = 2

\* C11 (as claimed): an instruction is settled only if its amount token is a
\* strictly positive integer literal: a parsed instruction whose amount token
\* is anything else (zero, negative, non-numeric, digits followed by other
\* characters) is answered AM01, and the amount of a settlement response is
\* the integer the whole amount token denotes.
C11_PositiveIntegerAmount ==
  (Responded /\ Parsed)
    => /\ ~IsPositiveIntegerLiteral(Data.amount.v)
            => response.status = "failed" /\ response.status_code = "AM01"
       /\ Settled
            => /\ IsPositiveIntegerLiteral(Data.amount.v)
               /\ response.amount = Num(LiteralValue(Data.amount.v))

\* C12 (as claimed): an instruction that passes rules AM01 through AC01 and
\* carries an execution date token after ON is settled only if that token is
\* a valid calendar date in YYYY-MM-DD form (four digits, two digits, two
\* digits; year 1000-9999, month 1-12, day valid for the month and year, leap
\* years respected); any other date token is answered DT01.
C12_DateValidity ==
  (Responded /\ Parsed /\ EarlierPass(8) /\ Data.execute_by.t = "string")
    => /\ Settled => IsCalendarDate(Data.execute_by.v)
       /\ ~IsCalendarDate(Data.execute_by.v)
            => response.status = "failed" /\ response.status_code = "DT01"

====
